---- MODULE Spec2Model ----
(***************************************************************************)
(* A model of the Identity Protocol prototype: the idp-core library        *)
(* (Identity::new, Identity::save_to_file, Identity::load_from_file, the   *)
(* key generation of crypto.rs) and the idp command line (init, show,      *)
(* set) working on the two files my.idp and my.key.                        *)
(*                                                                         *)
(* A Rust String is modelled as what it is, the sequence of its UTF-8      *)
(* bytes; a Vec<T> is a sequence; an Option<String> is a sequence of zero  *)
(* or one strings; a struct is a record with the struct's field names.     *)
(* A YAML text is modelled as its node tree (mappings keep the order of    *)
(* their entries, scalars keep their text and whether they are quoted),    *)
(* and a document file holds the sequence of the top-level entries that    *)
(* have been written to it so far.                                         *)
(***************************************************************************)
EXTENDS Integers, Sequences, FiniteSets, TLC

\* ------------------------------------------------------------- bounds
\* Number of distinct key pairs the random source can produce.
NumKeys == 2
\* Largest number of top-level entries one write() call of write_all moves.
MaxChunk == 2

\* ------------------------------------------------------------- strings
IdPrefix == <<105, 100, 112, 58, 107, 101, 121, 58, 115, 104, 97, 50, 53, 54, 58>>
Version021 == <<48, 46, 50, 46, 49>>
SchemaUrl == <<104, 116, 116, 112, 115, 58, 47, 47, 105, 100, 112, 46, 111, 114,
               103, 47, 115, 99, 104, 101, 109, 97, 115, 47, 118, 48, 46, 50, 46, 49>>
NowIso == <<50, 48, 50, 52, 45, 48, 49, 45, 48, 49, 84, 48, 48, 58, 48, 48, 58, 48, 48, 90>>
RootKeyId == <<114, 111, 111, 116, 45, 107, 101, 121, 45, 48, 49>>
Ed25519 == <<69, 100, 50, 53, 53, 49, 57>>
Active == <<97, 99, 116, 105, 118, 101>>
Revoked == <<114, 101, 118, 111, 107, 101, 100>>
Alice == <<65, 108, 105, 99, 101>>
Bob == <<66, 111, 98>>
Builder == <<66, 117, 105, 108, 100, 101, 114>>
NewBio == <<78, 101, 119, 32, 98, 105, 111>>
Hacked == <<104, 97, 99, 107, 101, 100>>
TestId == <<105, 100, 112, 58, 107, 101, 121, 58, 49, 50, 51>>
CleinId == <<105, 100, 112, 58, 107, 101, 121, 58, 99, 108, 101, 105, 110, 95, 48, 48, 49>>
CleinName == <<67, 108, 101, 105, 110, 32, 80, 105, 117, 115>>
CleinBio == <<70, 111, 117, 110, 100, 101, 114, 32, 111, 102, 32, 73, 68, 80, 46>>
TestUser == <<84, 101, 115, 116, 32, 85, 115, 101, 114>>
TestBio == <<84, 101, 115, 116, 32, 66, 105, 111>>
Earlier == <<50, 48, 50, 51, 45, 48, 54, 45, 48, 49, 84, 48, 48, 58, 48, 48, 58, 48, 48, 90>>
Later == <<50, 48, 50, 53, 45, 48, 49, 45, 48, 49, 84, 48, 48, 58, 48, 48, 58, 48, 48, 90>>
NullWord == <<110, 117, 108, 108>>
Tilde == <<126>>
TrueWord == <<116, 114, 117, 101>>
FalseWord == <<102, 97, 108, 115, 101>>
PathId == <<105, 100, 101, 110, 116, 105, 116, 121, 46, 105, 100>>
PathCreatedAt == <<105, 100, 101, 110, 116, 105, 116, 121, 46, 99, 114, 101, 97, 116,
                   101, 100, 95, 97, 116>>
PathBio == <<99, 111, 114, 101, 46, 98, 105, 111>>
Skill == <<115, 107, 105, 108, 108>>
Agreed == <<97, 103, 114, 101, 101, 100>>

StartsWith(s, p) == Len(s) >= Len(p) /\ SubSeq(s, 1, Len(p)) = p

\* ------------------------------------------------------------- encodings
\* data_encoding::BASE64: the standard alphabet, with padding.
B64Char(i) ==
    IF i < 26 THEN 65 + i
    ELSE IF i < 52 THEN 97 + (i - 26)
    ELSE IF i < 62 THEN 48 + (i - 52)
    ELSE IF i = 62 THEN 43 ELSE 47

RECURSIVE Base64Encode(_)
Base64Encode(b) ==
    IF Len(b) = 0 THEN <<>>
    ELSE IF Len(b) = 1 THEN
        <<B64Char(b[1] \div 4), B64Char((b[1] % 4) * 16), 61, 61>>
    ELSE IF Len(b) = 2 THEN
        <<B64Char(b[1] \div 4), B64Char((b[1] % 4) * 16 + b[2] \div 16),
          B64Char((b[2] % 16) * 4), 61>>
    ELSE
        <<B64Char(b[1] \div 4), B64Char((b[1] % 4) * 16 + b[2] \div 16),
          B64Char((b[2] % 16) * 4 + b[3] \div 64), B64Char(b[3] % 64)>>
        \o Base64Encode(SubSeq(b, 4, Len(b)))

\* ring::digest with SHA256: a DigestLen-byte digest of a byte string. The
\* compression function is abstracted to a byte-wise mixing function; what is
\* kept is that the digest is a deterministic function of the bytes hashed
\* and of nothing else, and that different byte strings (here: a key's raw
\* bytes and the bytes of its Base64 text) get different digests.
DigestLen == 32

RECURSIVE Absorb(_, _)
Absorb(h, m) ==
    IF m = <<>> THEN h
    ELSE Absorb((h * 33 + Head(m) + 1) % 256, Tail(m))

Sha256(m) == [i \in 1..DigestLen |-> Absorb((i * 97 + Len(m)) % 256, m)]

\* ------------------------------------------------------------- crypto.rs
\* Ed25519: a 32-byte seed, a 32-byte public key derived from it.
PublicKeyLen == 32

\* What SystemRandom can yield, by the index of the draw.
SeedBytes(k) == [i \in 1..PublicKeyLen |-> (k * 41 + i * 7) % 256]

\* The public key of a seed (the curve arithmetic is abstracted to a
\* deterministic byte-wise function of the seed).
PublicKeyBytes(k) == [i \in 1..PublicKeyLen |-> (SeedBytes(k)[i] * 5 + i + 3) % 256]

\* Ed25519KeyPair::generate_pkcs8: the PKCS#8 v2 document of the pair, the
\* fixed header, the seed, the fixed separator, the public key.
Pkcs8Bytes(k) ==
    <<48, 83, 2, 1, 1, 48, 5, 6, 3, 43, 101, 112, 4, 34, 4, 32>> \o SeedBytes(k)
    \o <<161, 35, 3, 33, 0>> \o PublicKeyBytes(k)

\* The public key the PKCS#8 document carries (from_pkcs8, then public_key()).
PublicKeyOfPkcs8(p) == SubSeq(p, Len(p) - PublicKeyLen + 1, Len(p))

generate_ed25519_keypair(k) ==
    LET pkcs8_bytes == Pkcs8Bytes(k)
        public_key_bytes == PublicKeyOfPkcs8(pkcs8_bytes)
        public_key_base64 == Base64Encode(public_key_bytes)
    IN  [public_key |-> [key_id |-> RootKeyId, algorithm |-> Ed25519,
                         value |-> public_key_base64, status |-> Active],
         private_key_bytes |-> pkcs8_bytes]

\* ------------------------------------------------------------- Identity::new
\* Step 4 of Identity::new: the struct, around the id and the public key.
NewIdentity(id, public_key, name, bio) ==
    [identity |-> [id |-> id, version |-> Version021, schema_url |-> SchemaUrl,
                   created_at |-> NowIso, updated_at |-> NowIso],
     system |-> [public_keys |-> <<public_key>>],
     core |-> [name |-> name, bio |-> bio],
     credentials |-> <<>>, proofs |-> <<>>, contracts |-> <<>>,
     reputation |-> <<>>, consent |-> <<>>]

\* Identity::new with the digest taken over the raw bytes of the public key.
IdentityNewRawHash(name, bio, k) ==
    LET key_pair == generate_ed25519_keypair(k)
        id == IdPrefix \o Base64Encode(Sha256(PublicKeyOfPkcs8(key_pair.private_key_bytes)))
    IN  [identity |-> NewIdentity(id, key_pair.public_key, name, bio),
         private_key_bytes |-> key_pair.private_key_bytes]

\* Identity::new with name and bio taken for each other.
IdentityNewSwapped(name, bio, k) ==
    LET key_pair == generate_ed25519_keypair(k)
        id == IdPrefix \o Base64Encode(Sha256(key_pair.public_key.value))
    IN  [identity |-> NewIdentity(id, key_pair.public_key, bio, name),
         private_key_bytes |-> key_pair.private_key_bytes]

\* Identity::new, the key generation yielding the k-th key pair: the Identity
\* and the private key bytes.
IdentityNew(name, bio, k) ==
    LET key_pair == generate_ed25519_keypair(k)
        public_key == key_pair.public_key
        private_key_bytes == key_pair.private_key_bytes
        public_key_hash == Sha256(public_key.value)
        id == IdPrefix \o Base64Encode(public_key_hash)
    IN  [identity |-> NewIdentity(id, public_key, name, bio),
         private_key_bytes |-> private_key_bytes]

\* ------------------------------------------------------------- YAML nodes
E(k, v) == [key |-> k, val |-> v]
YScalar(t, q) == [kind |-> "scalar", text |-> t, quoted |-> q]
YSeq(xs) == [kind |-> "seq", items |-> xs]
YMap(es) == [kind |-> "map", entries |-> es]

IsDigits(t) == Len(t) > 0 /\ \A i \in 1..Len(t) : t[i] \in 48..57

\* The plain scalars YAML resolves to an integer.
LooksInt(t) ==
    \/ IsDigits(t)
    \/ Len(t) > 1 /\ t[1] \in {43, 45} /\ IsDigits(Tail(t))

\* The plain scalars YAML resolves to null.
LooksNull(t) == t \in {<<>>, NullWord, Tilde}

\* A writer that never quotes.
NeverQuote(s) == FALSE

\* serde_yaml writes a string in quotes when its plain form would be read
\* back as something other than that string.
NeedsQuote(s) == LooksInt(s) \/ LooksNull(s) \/ s \in {TrueWord, FalseWord}

RECURSIVE Digits(_)
Digits(n) == IF n < 10 THEN <<48 + n>> ELSE Digits(n \div 10) \o <<48 + (n % 10)>>

I64ToText(n) == IF n < 0 THEN <<45>> \o Digits(0 - n) ELSE Digits(n)

RECURSIVE DigitsValue(_)
DigitsValue(t) ==
    IF t = <<>> THEN 0
    ELSE DigitsValue(SubSeq(t, 1, Len(t) - 1)) * 10 + (t[Len(t)] - 48)

TextToI64(t) ==
    IF t[1] = 45 THEN 0 - DigitsValue(Tail(t))
    ELSE IF t[1] = 43 THEN DigitsValue(Tail(t))
    ELSE DigitsValue(t)

\* ------------------------------------------------------------- Serialize
SerString(s) == YScalar(s, NeedsQuote(s))
SerI64(n) == YScalar(I64ToText(n), FALSE)
SerStrings(ss) == YSeq([i \in 1..Len(ss) |-> SerString(ss[i])])

SerIdentityBlock(b) ==
    YMap(<<E("id", SerString(b.id)), E("version", SerString(b.version)),
           E("schema_url", SerString(b.schema_url)),
           E("created_at", SerString(b.created_at)),
           E("updated_at", SerString(b.updated_at))>>)

SerPublicKey(k) ==
    YMap(<<E("key_id", SerString(k.key_id)), E("algorithm", SerString(k.algorithm)),
           E("value", SerString(k.value)), E("status", SerString(k.status))>>)

SerSystemBlock(b) ==
    YMap(<<E("public_keys",
             YSeq([i \in 1..Len(b.public_keys) |-> SerPublicKey(b.public_keys[i])]))>>)

SerCoreBlock(b) == YMap(<<E("name", SerString(b.name)), E("bio", SerString(b.bio))>>)

\* expires_at: skip_serializing_if = "Option::is_none".
SerCredential(c) ==
    YMap(<<E("claim", SerString(c.claim)), E("issued_by", SerString(c.issued_by)),
           E("issued_at", SerString(c.issued_at))>>
         \o (IF c.expires_at = <<>> THEN <<>>
             ELSE <<E("expires_at", SerString(c.expires_at[1]))>>)
         \o <<E("proof", SerString(c.proof))>>)

SerSigner(s) == YMap(<<E("idp_id", SerString(s.idp_id)), E("key_id", SerString(s.key_id))>>)

SerSignatureComponent(s) ==
    YMap(<<E("algorithm", SerString(s.algorithm)), E("value", SerString(s.value))>>)

\* proof_type: serde(rename = "type").
SerProof(p) ==
    YMap(<<E("proof_id", SerString(p.proof_id)), E("type", SerString(p.proof_type)),
           E("claim_hash", SerString(p.claim_hash)), E("signed_by", SerSigner(p.signed_by)),
           E("signature",
             YSeq([i \in 1..Len(p.signature) |-> SerSignatureComponent(p.signature[i])]))>>)

SerConsequence(c) ==
    YMap(<<E("on_success", SerString(c.on_success)), E("on_failure", SerString(c.on_failure))>>)

SerContract(c) ==
    YMap(<<E("contract_id", SerString(c.contract_id)), E("status", SerString(c.status)),
           E("parties", SerStrings(c.parties)), E("terms", SerString(c.terms)),
           E("consequence", SerConsequence(c.consequence))>>)

SerReputationEvent(e) ==
    YMap(<<E("event", SerString(e.event)), E("change", SerI64(e.change)),
           E("timestamp", SerString(e.timestamp))>>)

SerReputation(r) ==
    YMap(<<E("score_name", SerString(r.score_name)), E("value", SerI64(r.value)),
           E("history", YSeq([i \in 1..Len(r.history) |-> SerReputationEvent(r.history[i])]))>>)

SerConsent(c) ==
    YMap(<<E("granted_to", SerString(c.granted_to)), E("fields", SerStrings(c.fields)),
           E("expires_at", SerString(c.expires_at)), E("purpose", SerString(c.purpose))>>)

\* A trust sequence: skip_serializing_if = "Vec::is_empty".
SerVec(k, items) == IF items = <<>> THEN <<>> ELSE <<E(k, YSeq(items))>>

\* serde_yaml::to_string(self): the top-level entries, in declaration order.
Serialize(d) ==
    <<E("identity", SerIdentityBlock(d.identity)), E("system", SerSystemBlock(d.system)),
      E("core", SerCoreBlock(d.core))>>
    \o SerVec("credentials", [i \in 1..Len(d.credentials) |-> SerCredential(d.credentials[i])])
    \o SerVec("proofs", [i \in 1..Len(d.proofs) |-> SerProof(d.proofs[i])])
    \o SerVec("contracts", [i \in 1..Len(d.contracts) |-> SerContract(d.contracts[i])])
    \o SerVec("reputation", [i \in 1..Len(d.reputation) |-> SerReputation(d.reputation[i])])
    \o SerVec("consent", [i \in 1..Len(d.consent) |-> SerConsent(d.consent[i])])

\* ------------------------------------------------------------- Deserialize
\* A derived Deserialize of a struct reads a mapping: every field it knows
\* must occur once (a field with a default may be absent), a known field
\* occurring twice is an error, and a key it does not know is skipped.
Count(es, k) == Cardinality({i \in DOMAIN es : es[i].key = k})
Val(es, k) == es[CHOOSE i \in DOMAIN es : es[i].key = k].val

IsMap(y) == y.kind = "map"
\* A String takes the text of any scalar.
IsString(y) == y.kind = "scalar"
\* An i64 takes a plain scalar that reads as an integer.
IsI64(y) == y.kind = "scalar" /\ ~y.quoted /\ LooksInt(y.text)
IsSeq(y) == y.kind = "seq"
\* The field occurs, once.
Once(es, k) == Count(es, k) = 1
HasStrings(es, ks) == \A k \in ks : Once(es, k) /\ IsString(Val(es, k))
\* A field without its default: it has to be there.
NeverDefault(es, k) == FALSE
\* serde(default), and an Option: the field may be absent.
UsesDefault(es, k) == Count(es, k) = 0
IsStrings(y) == IsSeq(y) /\ \A i \in DOMAIN y.items : IsString(y.items[i])

DeString(y) == y.text
DeI64(y) == TextToI64(y.text)
DeStrings(y) == [i \in 1..Len(y.items) |-> DeString(y.items[i])]
\* An Option<String>: null is None, any other scalar is Some of its text.
DeOptString(y) == IF ~y.quoted /\ LooksNull(y.text) THEN <<>> ELSE <<y.text>>

IsIdentityBlock(y) ==
    IsMap(y) /\ HasStrings(y.entries, {"id", "version", "schema_url", "created_at", "updated_at"})
DeIdentityBlock(y) ==
    [id |-> DeString(Val(y.entries, "id")), version |-> DeString(Val(y.entries, "version")),
     schema_url |-> DeString(Val(y.entries, "schema_url")),
     created_at |-> DeString(Val(y.entries, "created_at")),
     updated_at |-> DeString(Val(y.entries, "updated_at"))]

IsPublicKey(y) == IsMap(y) /\ HasStrings(y.entries, {"key_id", "algorithm", "value", "status"})
DePublicKey(y) ==
    [key_id |-> DeString(Val(y.entries, "key_id")),
     algorithm |-> DeString(Val(y.entries, "algorithm")),
     value |-> DeString(Val(y.entries, "value")), status |-> DeString(Val(y.entries, "status"))]

IsPublicKeys(y) == IsSeq(y) /\ \A i \in DOMAIN y.items : IsPublicKey(y.items[i])
IsSystemBlock(y) ==
    /\ IsMap(y)
    /\ Once(y.entries, "public_keys") /\ IsPublicKeys(Val(y.entries, "public_keys"))
DeSystemBlock(y) == [public_keys |-> [i \in 1..Len(Val(y.entries, "public_keys").items) |->
                      DePublicKey(Val(y.entries, "public_keys").items[i])]]

IsCoreBlock(y) == IsMap(y) /\ HasStrings(y.entries, {"name", "bio"})
DeCoreBlock(y) ==
    [name |-> DeString(Val(y.entries, "name")), bio |-> DeString(Val(y.entries, "bio"))]

IsCredential(y) ==
    /\ IsMap(y)
    /\ HasStrings(y.entries, {"claim", "issued_by", "issued_at", "proof"})
    /\ (UsesDefault(y.entries, "expires_at")
        \/ (Once(y.entries, "expires_at") /\ IsString(Val(y.entries, "expires_at"))))
DeCredential(y) ==
    [claim |-> DeString(Val(y.entries, "claim")),
     issued_by |-> DeString(Val(y.entries, "issued_by")),
     issued_at |-> DeString(Val(y.entries, "issued_at")),
     expires_at |-> IF Count(y.entries, "expires_at") = 0 THEN <<>>
                    ELSE DeOptString(Val(y.entries, "expires_at")),
     proof |-> DeString(Val(y.entries, "proof"))]

IsSigner(y) == IsMap(y) /\ HasStrings(y.entries, {"idp_id", "key_id"})
DeSigner(y) ==
    [idp_id |-> DeString(Val(y.entries, "idp_id")), key_id |-> DeString(Val(y.entries, "key_id"))]

IsSignatureComponent(y) == IsMap(y) /\ HasStrings(y.entries, {"algorithm", "value"})
DeSignatureComponent(y) ==
    [algorithm |-> DeString(Val(y.entries, "algorithm")),
     value |-> DeString(Val(y.entries, "value"))]

IsSignature(y) == IsSeq(y) /\ \A i \in DOMAIN y.items : IsSignatureComponent(y.items[i])
IsProof(y) ==
    /\ IsMap(y)
    /\ HasStrings(y.entries, {"proof_id", "type", "claim_hash"})
    /\ Once(y.entries, "signed_by") /\ IsSigner(Val(y.entries, "signed_by"))
    /\ Once(y.entries, "signature") /\ IsSignature(Val(y.entries, "signature"))
DeProof(y) ==
    [proof_id |-> DeString(Val(y.entries, "proof_id")),
     proof_type |-> DeString(Val(y.entries, "type")),
     claim_hash |-> DeString(Val(y.entries, "claim_hash")),
     signed_by |-> DeSigner(Val(y.entries, "signed_by")),
     signature |-> [i \in 1..Len(Val(y.entries, "signature").items) |->
                      DeSignatureComponent(Val(y.entries, "signature").items[i])]]

IsConsequence(y) == IsMap(y) /\ HasStrings(y.entries, {"on_success", "on_failure"})
DeConsequence(y) ==
    [on_success |-> DeString(Val(y.entries, "on_success")),
     on_failure |-> DeString(Val(y.entries, "on_failure"))]

IsContract(y) ==
    /\ IsMap(y)
    /\ HasStrings(y.entries, {"contract_id", "status", "terms"})
    /\ Once(y.entries, "parties") /\ IsStrings(Val(y.entries, "parties"))
    /\ Once(y.entries, "consequence") /\ IsConsequence(Val(y.entries, "consequence"))
DeContract(y) ==
    [contract_id |-> DeString(Val(y.entries, "contract_id")),
     status |-> DeString(Val(y.entries, "status")),
     parties |-> DeStrings(Val(y.entries, "parties")),
     terms |-> DeString(Val(y.entries, "terms")),
     consequence |-> DeConsequence(Val(y.entries, "consequence"))]

IsReputationEvent(y) ==
    /\ IsMap(y)
    /\ HasStrings(y.entries, {"event", "timestamp"})
    /\ Once(y.entries, "change") /\ IsI64(Val(y.entries, "change"))
DeReputationEvent(y) ==
    [event |-> DeString(Val(y.entries, "event")), change |-> DeI64(Val(y.entries, "change")),
     timestamp |-> DeString(Val(y.entries, "timestamp"))]

IsHistory(y) == IsSeq(y) /\ \A i \in DOMAIN y.items : IsReputationEvent(y.items[i])
IsReputation(y) ==
    /\ IsMap(y)
    /\ HasStrings(y.entries, {"score_name"})
    /\ Once(y.entries, "value") /\ IsI64(Val(y.entries, "value"))
    /\ Once(y.entries, "history") /\ IsHistory(Val(y.entries, "history"))
DeReputation(y) ==
    [score_name |-> DeString(Val(y.entries, "score_name")),
     value |-> DeI64(Val(y.entries, "value")),
     history |-> [i \in 1..Len(Val(y.entries, "history").items) |->
                      DeReputationEvent(Val(y.entries, "history").items[i])]]

IsConsent(y) ==
    /\ IsMap(y)
    /\ HasStrings(y.entries, {"granted_to", "expires_at", "purpose"})
    /\ Once(y.entries, "fields") /\ IsStrings(Val(y.entries, "fields"))
DeConsent(y) ==
    [granted_to |-> DeString(Val(y.entries, "granted_to")),
     fields |-> DeStrings(Val(y.entries, "fields")),
     expires_at |-> DeString(Val(y.entries, "expires_at")),
     purpose |-> DeString(Val(y.entries, "purpose"))]

IsCredentials(y) == IsSeq(y) /\ \A i \in DOMAIN y.items : IsCredential(y.items[i])
IsProofs(y) == IsSeq(y) /\ \A i \in DOMAIN y.items : IsProof(y.items[i])
IsContracts(y) == IsSeq(y) /\ \A i \in DOMAIN y.items : IsContract(y.items[i])
IsReputations(y) == IsSeq(y) /\ \A i \in DOMAIN y.items : IsReputation(y.items[i])
IsConsents(y) == IsSeq(y) /\ \A i \in DOMAIN y.items : IsConsent(y.items[i])

\* A trust sequence: serde(default), empty when its key is absent.
DeVec(es, k) == IF Count(es, k) = 0 THEN <<>> ELSE Val(es, k).items

\* serde_yaml::from_str::<Identity> succeeds on a text with these entries.
Parses(es) ==
    /\ Once(es, "identity") /\ IsIdentityBlock(Val(es, "identity"))
    /\ Once(es, "system") /\ IsSystemBlock(Val(es, "system"))
    /\ Once(es, "core") /\ IsCoreBlock(Val(es, "core"))
    /\ (UsesDefault(es, "credentials")
        \/ (Once(es, "credentials") /\ IsCredentials(Val(es, "credentials"))))
    /\ (UsesDefault(es, "proofs")
        \/ (Once(es, "proofs") /\ IsProofs(Val(es, "proofs"))))
    /\ (UsesDefault(es, "contracts")
        \/ (Once(es, "contracts") /\ IsContracts(Val(es, "contracts"))))
    /\ (UsesDefault(es, "reputation")
        \/ (Once(es, "reputation") /\ IsReputations(Val(es, "reputation"))))
    /\ (UsesDefault(es, "consent")
        \/ (Once(es, "consent") /\ IsConsents(Val(es, "consent"))))

\* The Identity it returns then.
Deserialize(es) ==
    [identity |-> DeIdentityBlock(Val(es, "identity")),
     system |-> DeSystemBlock(Val(es, "system")),
     core |-> DeCoreBlock(Val(es, "core")),
     credentials |->
        [i \in 1..Len(DeVec(es, "credentials")) |-> DeCredential(DeVec(es, "credentials")[i])],
     proofs |->
        [i \in 1..Len(DeVec(es, "proofs")) |-> DeProof(DeVec(es, "proofs")[i])],
     contracts |->
        [i \in 1..Len(DeVec(es, "contracts")) |-> DeContract(DeVec(es, "contracts")[i])],
     reputation |->
        [i \in 1..Len(DeVec(es, "reputation")) |-> DeReputation(DeVec(es, "reputation")[i])],
     consent |->
        [i \in 1..Len(DeVec(es, "consent")) |-> DeConsent(DeVec(es, "consent")[i])]]

\* ------------------------------------------------------------- documents
\* The Identity values a caller of the library builds field by field, as the
\* tests do, and the document texts a user writes with an editor.
Key1 == generate_ed25519_keypair(1).public_key
BaseDoc == IdentityNew(Alice, Builder, 1).identity

CredWithExpiry ==
    [claim |-> Skill, issued_by |-> CleinId, issued_at |-> NowIso,
     expires_at |-> <<Later>>, proof |-> TestId]
CredNoExpiry == [CredWithExpiry EXCEPT !.expires_at = <<>>]
\* An expiry whose text is the word null: a string, not an absent value.
CredNullWordExpiry == [CredWithExpiry EXCEPT !.expires_at = <<NullWord>>]
ProofOk ==
    [proof_id |-> TestId, proof_type |-> Skill, claim_hash |-> Hacked,
     signed_by |-> [idp_id |-> BaseDoc.identity.id, key_id |-> RootKeyId],
     signature |-> <<[algorithm |-> Ed25519, value |-> TestBio]>>]
ProofDangling == [ProofOk EXCEPT !.signed_by.key_id = TestId]
ContractOk ==
    [contract_id |-> TestId, status |-> Active, parties |-> <<CleinId, TestId>>,
     terms |-> Agreed, consequence |-> [on_success |-> Agreed, on_failure |-> <<>>]]
ContractNoParties == [ContractOk EXCEPT !.parties = <<>>]
RepOk ==
    [score_name |-> Skill, value |-> 100,
     history |-> <<[event |-> Agreed, change |-> 120, timestamp |-> NowIso],
                   [event |-> Hacked, change |-> -20, timestamp |-> Later]>>]
\* Scenario 4 of the specification: value 100, history summing to 80.
RepBad ==
    [score_name |-> Skill, value |-> 100,
     history |-> <<[event |-> Agreed, change |-> 80, timestamp |-> NowIso]>>]
Consent1 ==
    [granted_to |-> CleinId, fields |-> <<PathBio>>, expires_at |-> Later, purpose |-> Agreed]

\* tests::it_can_be_created: no public key at all.
TestDoc ==
    [identity |-> [id |-> TestId, version |-> Version021, schema_url |-> SchemaUrl,
                   created_at |-> NowIso, updated_at |-> NowIso],
     system |-> [public_keys |-> <<>>],
     core |-> [name |-> TestUser, bio |-> TestBio],
     credentials |-> <<>>, proofs |-> <<>>, contracts |-> <<>>,
     reputation |-> <<>>, consent |-> <<>>]

FullDoc ==
    [BaseDoc EXCEPT !.identity.updated_at = Later,
                    !.credentials = <<CredWithExpiry, CredNoExpiry>>,
                    !.proofs = <<ProofOk>>, !.contracts = <<ContractOk>>,
                    !.reputation = <<RepOk>>, !.consent = <<Consent1>>]
RepBadDoc == [BaseDoc EXCEPT !.reputation = <<RepBad>>]
DupKeyDoc == [BaseDoc EXCEPT !.system.public_keys = <<Key1, [Key1 EXCEPT !.status = Revoked]>>]
DanglingProofDoc == [BaseDoc EXCEPT !.proofs = <<ProofDangling>>]
NoPartiesDoc == [BaseDoc EXCEPT !.contracts = <<ContractNoParties>>]
BackwardsDoc == [BaseDoc EXCEPT !.identity.updated_at = Earlier]

\* The Identity values a caller builds before a save: one that breaks the
\* key invariant and one that breaks the reputation invariant.
SampleDocs == {TestDoc, RepBadDoc}

\* BaseDoc with every choice of which trust sequences are empty.
WithTrust(c, p, k, r, n) ==
    [BaseDoc EXCEPT !.credentials = IF c THEN <<CredWithExpiry, CredNoExpiry>> ELSE <<>>,
                    !.proofs = IF p THEN <<ProofOk>> ELSE <<>>,
                    !.contracts = IF k THEN <<ContractOk>> ELSE <<>>,
                    !.reputation = IF r THEN <<RepOk>> ELSE <<>>,
                    !.consent = IF n THEN <<Consent1>> ELSE <<>>]
TrustDocs == {WithTrust(c, p, k, r, n) : c, p, k, r, n \in BOOLEAN}

LibDocs ==
    TrustDocs
    \cup {TestDoc, FullDoc, RepBadDoc, DupKeyDoc, DanglingProofDoc, NoPartiesDoc, BackwardsDoc,
          [BaseDoc EXCEPT !.credentials = <<CredNullWordExpiry>>]}

\* tests::it_can_load_from_a_file: every string in double quotes, an explicit
\* empty list of keys, no trust sequence.
Quoted(t) == YScalar(t, TRUE)
CleinFile ==
    <<E("identity", YMap(<<E("id", Quoted(CleinId)), E("version", Quoted(Version021)),
                           E("schema_url", Quoted(SchemaUrl)),
                           E("created_at", Quoted(NowIso)),
                           E("updated_at", Quoted(NowIso))>>)),
      E("system", YMap(<<E("public_keys", YSeq(<<>>))>>)),
      E("core", YMap(<<E("name", Quoted(CleinName)), E("bio", Quoted(CleinBio))>>))>>

\* A text whose reputation value is written in quotes: a string, not an i64.
QuotedValueFile ==
    Serialize(BaseDoc)
    \o <<E("reputation",
           YSeq(<<YMap(<<E("score_name", SerString(Skill)), E("value", Quoted(<<49, 48, 48>>)),
                         E("history", YSeq(<<>>))>>)>>))>>

\* A text that writes an empty trust sequence out, and one with a top-level
\* key the struct does not have.
ExplicitEmptyFile == Serialize(BaseDoc) \o <<E("credentials", YSeq(<<>>))>>
UnknownKeyFile == Serialize(FullDoc) \o <<E("extensions", YSeq(<<>>))>>

AuthoredFiles == {CleinFile, Serialize(RepBadDoc)}
LibFiles ==
    {Serialize(d) : d \in LibDocs}
    \cup {CleinFile, QuotedValueFile, ExplicitEmptyFile, UnknownKeyFile}

Names == {Alice, Bob}
Bios == {Builder}
LibNames == {Bob, <<>>}
LibBios == {NewBio, NullWord}
SetPaths == {PathId, PathCreatedAt, PathBio}
SetValues == {Hacked, NewBio}

\* The values of Identity::new, by its arguments and the key pair drawn.
NewTable ==
    [name \in Names \cup LibNames, bio \in Bios \cup LibBios, k \in 1..NumKeys |->
        IdentityNew(name, bio, k)]

\* ------------------------------------------------------------- state
VARIABLES
    fs_idp,    \* the document file my.idp: whether it exists, what it holds
    fs_key,    \* the secret-key file my.key: whether it exists, its bytes
    doc,       \* the Identity a caller of the library holds: <<>> or <<d>>
    pc,        \* where the running call stands: "idle", "save", "init_save", "init_key"
    wbuf,      \* write_all: the entries of the text not yet written
    secret,    \* init: the private key bytes Identity::new returned
    last,      \* the last call: its name, its result, its arguments
    pre,       \* the files and the Identity as that call found them
    doc_new,   \* doc descends from a value Identity::new built
    idp_new    \* the text in my.idp descends from a value Identity::new built

vars == <<fs_idp, fs_key, doc, pc, wbuf, secret, last, pre, doc_new, idp_new>>

NoFile == [exists |-> FALSE, data |-> <<>>]
File(d) == [exists |-> TRUE, data |-> d]
Call(c, r, a, b) == [cmd |-> c, result |-> r, a1 |-> a, a2 |-> b]
Found == [idp |-> fs_idp, key |-> fs_key, doc |-> doc]

Init ==
    /\ fs_idp = NoFile
    /\ fs_key = NoFile
    /\ doc = <<>>
    /\ pc = "idle"
    /\ wbuf = <<>>
    /\ secret = <<>>
    /\ last = Call("none", "ok", <<>>, <<>>)
    /\ pre = [idp |-> NoFile, key |-> NoFile, doc |-> <<>>]
    /\ doc_new = FALSE
    /\ idp_new = FALSE

\* Identity::load_from_file: open, read, serde_yaml::from_str. No check of
\* the value follows.
LoadOk(f) == f.exists /\ Parses(f.data)
load_from_file(f) == Deserialize(f.data)

\* A caller builds an Identity from a struct literal.
Construct(d) ==
    /\ pc = "idle"
    /\ doc' = <<d>>
    /\ doc_new' = FALSE
    /\ last' = Call("construct", "ok", <<>>, <<>>)
    /\ pre' = Found
    /\ UNCHANGED <<fs_idp, fs_key, pc, wbuf, secret, idp_new>>

\* Identity::new, the key generation succeeding with the k-th key pair.
New(name, bio, k) ==
    /\ pc = "idle"
    /\ doc' = <<NewTable[name, bio, k].identity>>
    /\ doc_new' = TRUE
    /\ last' = Call("new", "ok", name, bio)
    /\ pre' = Found
    /\ UNCHANGED <<fs_idp, fs_key, pc, wbuf, secret, idp_new>>

\* Identity::new, the key generation failing: the ? returns the error.
NewErr(name, bio) ==
    /\ pc = "idle"
    /\ last' = Call("new", "err", name, bio)
    /\ pre' = Found
    /\ UNCHANGED <<fs_idp, fs_key, doc, pc, wbuf, secret, doc_new, idp_new>>

\* save_to_file: to_string, then File::create fails: nothing is touched.
SaveCreateErr ==
    /\ pc = "idle" /\ doc # <<>>
    /\ last' = Call("save", "err", <<>>, <<>>)
    /\ pre' = Found
    /\ UNCHANGED <<fs_idp, fs_key, doc, pc, wbuf, secret, doc_new, idp_new>>

\* save_to_file: to_string, then File::create creates the file or truncates
\* the one that is there; the text is still to be written.
SaveCreate ==
    /\ pc = "idle" /\ doc # <<>>
    /\ fs_idp' = File(<<>>)
    /\ wbuf' = Serialize(doc[1])
    /\ pc' = "save"
    /\ idp_new' = doc_new
    /\ last' = Call("save", "running", <<>>, <<>>)
    /\ pre' = Found
    /\ UNCHANGED <<fs_key, doc, secret, doc_new>>

\* write_all: one write() moves the next n entries into the file; after the
\* last one save_to_file returns Ok, to its caller.
SaveWrite(n) ==
    /\ pc \in {"save", "init_save"}
    /\ n \in 1..Len(wbuf)
    /\ fs_idp' = File(fs_idp.data \o SubSeq(wbuf, 1, n))
    /\ wbuf' = SubSeq(wbuf, n + 1, Len(wbuf))
    /\ IF n < Len(wbuf) THEN UNCHANGED <<pc, last>>
       ELSE IF pc = "save" THEN pc' = "idle" /\ last' = [last EXCEPT !.result = "ok"]
       ELSE pc' = "init_key" /\ UNCHANGED last
    /\ UNCHANGED <<fs_key, doc, secret, pre, doc_new, idp_new>>

\* write_all: a write() fails; the ? returns the error, in init too.
SaveWriteErr ==
    /\ pc \in {"save", "init_save"}
    /\ pc' = "idle"
    /\ wbuf' = <<>>
    /\ secret' = <<>>
    /\ last' = [last EXCEPT !.result = "err"]
    /\ UNCHANGED <<fs_idp, fs_key, doc, pre, doc_new, idp_new>>

\* The process is stopped in the middle of a call.
Interrupt ==
    /\ pc # "idle"
    /\ pc' = "idle"
    /\ wbuf' = <<>>
    /\ secret' = <<>>
    /\ last' = [last EXCEPT !.result = "interrupted"]
    /\ UNCHANGED <<fs_idp, fs_key, doc, pre, doc_new, idp_new>>

\* Identity::load_from_file by a caller of the library.
Load ==
    /\ pc = "idle"
    /\ IF LoadOk(fs_idp)
       THEN /\ doc' = <<load_from_file(fs_idp)>>
            /\ doc_new' = idp_new
            /\ last' = Call("load", "ok", <<>>, <<>>)
       ELSE /\ last' = Call("load", "err", <<>>, <<>>)
            /\ UNCHANGED <<doc, doc_new>>
    /\ pre' = Found
    /\ UNCHANGED <<fs_idp, fs_key, pc, wbuf, secret, idp_new>>

\* A user writes the document file with other means (std::fs::write).
WriteFile(t) ==
    /\ pc = "idle"
    /\ fs_idp' = File(t)
    /\ idp_new' = FALSE
    /\ last' = Call("write", "ok", <<>>, <<>>)
    /\ pre' = Found
    /\ UNCHANGED <<fs_key, doc, pc, wbuf, secret, doc_new>>

\* ------------------------------------------------------------- idp init
\* One of the two files exists: "Aborted due to existing files."
InitAbort(name, bio) ==
    /\ pc = "idle"
    /\ fs_idp.exists \/ fs_key.exists
    /\ last' = Call("init", "err", name, bio)
    /\ pre' = Found
    /\ UNCHANGED <<fs_idp, fs_key, doc, pc, wbuf, secret, doc_new, idp_new>>

\* Identity::new fails, or File::create in save_to_file does.
InitErr(name, bio) ==
    /\ pc = "idle"
    /\ ~(fs_idp.exists \/ fs_key.exists)
    /\ last' = Call("init", "err", name, bio)
    /\ pre' = Found
    /\ UNCHANGED <<fs_idp, fs_key, doc, pc, wbuf, secret, doc_new, idp_new>>

\* Identity::new succeeds and save_to_file has created my.idp.
InitCreate(name, bio, k) ==
    /\ pc = "idle"
    /\ ~(fs_idp.exists \/ fs_key.exists)
    /\ fs_idp' = File(<<>>)
    /\ wbuf' = Serialize(NewTable[name, bio, k].identity)
    /\ secret' = NewTable[name, bio, k].private_key_bytes
    /\ pc' = "init_save"
    /\ idp_new' = TRUE
    /\ last' = Call("init", "running", name, bio)
    /\ pre' = Found
    /\ UNCHANGED <<fs_key, doc, doc_new>>

\* std::fs::write(my.key) succeeds: init reports success.
InitWriteKey ==
    /\ pc = "init_key"
    /\ fs_key' = File(secret)
    /\ pc' = "idle"
    /\ secret' = <<>>
    /\ last' = [last EXCEPT !.result = "ok"]
    /\ UNCHANGED <<fs_idp, doc, wbuf, pre, doc_new, idp_new>>

\* std::fs::write(my.key) fails, before creating the file or after: the ?
\* returns the error.
InitWriteKeyErr(created) ==
    /\ pc = "init_key"
    /\ fs_key' = IF created THEN File(<<>>) ELSE fs_key
    /\ pc' = "idle"
    /\ secret' = <<>>
    /\ last' = [last EXCEPT !.result = "err"]
    /\ UNCHANGED <<fs_idp, doc, wbuf, pre, doc_new, idp_new>>

\* ------------------------------------------------------------- idp show
Show ==
    /\ pc = "idle"
    /\ last' = Call("show", IF LoadOk(fs_idp) THEN "ok" ELSE "err", <<>>, <<>>)
    /\ pre' = Found
    /\ UNCHANGED <<fs_idp, fs_key, doc, pc, wbuf, secret, doc_new, idp_new>>

\* ------------------------------------------------------------- idp set
\* Prints the path and the value, and falls through to Ok(()).
Set(path, value) ==
    /\ pc = "idle"
    /\ last' = Call("set", "ok", path, value)
    /\ pre' = Found
    /\ UNCHANGED <<fs_idp, fs_key, doc, pc, wbuf, secret, doc_new, idp_new>>

Next ==
    \/ \E d \in SampleDocs : Construct(d)
    \/ \E name \in Names, bio \in Bios, k \in 1..NumKeys : New(name, bio, k)
    \/ \E name \in Names, bio \in Bios : NewErr(name, bio)
    \/ SaveCreateErr
    \/ SaveCreate
    \/ \E n \in 1..MaxChunk : SaveWrite(n)
    \/ SaveWriteErr
    \/ Interrupt
    \/ Load
    \/ \E t \in AuthoredFiles : WriteFile(t)
    \/ \E name \in Names, bio \in Bios : InitAbort(name, bio)
    \/ \E name \in Names, bio \in Bios : InitErr(name, bio)
    \/ \E name \in Names, bio \in Bios, k \in 1..NumKeys : InitCreate(name, bio, k)
    \/ InitWriteKey
    \/ \E created \in BOOLEAN : InitWriteKeyErr(created)
    \/ Show
    \/ \E path \in SetPaths, value \in SetValues : Set(path, value)

Spec == Init /\ [][Next]_vars

\* ------------------------------------------------------------- the library alone
\* The callers of idp-core only: an Identity drawn from LibDocs is held, or a
\* text drawn from LibFiles is in the file, and the library's functions run.
InitLib ==
    /\ \/ doc \in {<<d>> : d \in LibDocs} /\ fs_idp = NoFile
       \/ doc = <<>> /\ fs_idp \in {File(t) : t \in LibFiles}
    /\ fs_key = NoFile
    /\ pc = "idle"
    /\ wbuf = <<>>
    /\ secret = <<>>
    /\ last = Call("none", "ok", <<>>, <<>>)
    /\ pre = [idp |-> fs_idp, key |-> NoFile, doc |-> doc]
    /\ doc_new = FALSE
    /\ idp_new = FALSE

NextLib ==
    \/ \E name \in LibNames, bio \in LibBios, k \in 1..NumKeys : New(name, bio, k)
    \/ \E name \in LibNames, bio \in LibBios : NewErr(name, bio)
    \/ SaveCreateErr
    \/ SaveCreate
    \/ \E n \in 1..MaxChunk : SaveWrite(n)
    \/ SaveWriteErr
    \/ Interrupt
    \/ Load

SpecLib == InitLib /\ [][NextLib]_vars

\* ------------------------------------------------------------- the document invariants
RECURSIVE SumOfChanges(_)
SumOfChanges(h) == IF h = <<>> THEN 0 ELSE Head(h).change + SumOfChanges(Tail(h))

\* Timestamps of one format, in UTC, are ordered as their texts are.
RECURSIVE TextLeq(_, _)
TextLeq(a, b) ==
    IF a = <<>> THEN TRUE
    ELSE IF b = <<>> THEN FALSE
    ELSE IF Head(a) # Head(b) THEN Head(a) < Head(b)
    ELSE TextLeq(Tail(a), Tail(b))

KeyIds(d) == {d.system.public_keys[i].key_id : i \in DOMAIN d.system.public_keys}

KeysOk(d) ==
    /\ d.system.public_keys # <<>>
    /\ \A i, j \in DOMAIN d.system.public_keys :
          d.system.public_keys[i].key_id = d.system.public_keys[j].key_id => i = j
ReputationOk(d) ==
    \A i \in DOMAIN d.reputation : d.reputation[i].value = SumOfChanges(d.reputation[i].history)
ContractsOk(d) == \A i \in DOMAIN d.contracts : d.contracts[i].parties # <<>>
ProofsOk(d) == \A i \in DOMAIN d.proofs : d.proofs[i].signed_by.key_id \in KeyIds(d)
TimesOk(d) == TextLeq(d.identity.created_at, d.identity.updated_at)

\* Every invariant of the data model.
Valid(d) == KeysOk(d) /\ ReputationOk(d) /\ ContractsOk(d) /\ ProofsOk(d) /\ TimesOk(d)

TrustKeys == {"credentials", "proofs", "contracts", "reputation", "consent"}
TrustOf(d, k) ==
    CASE k = "credentials" -> d.credentials
      [] k = "proofs" -> d.proofs
      [] k = "contracts" -> d.contracts
      [] k = "reputation" -> d.reputation
      [] k = "consent" -> d.consent

\* ------------------------------------------------------------- claims

\* C1: while a save over an existing document file is in progress, and after
\* it was interrupted or has returned, the file holds the complete prior
\* text or the complete new one, never an empty or partly written one.
C1_SaveIsAtomic ==
    (last.cmd = "save" /\ pre.idp.exists /\ LoadOk(pre.idp)) =>
        /\ fs_idp.exists
        /\ fs_idp.data \in {pre.idp.data, Serialize(doc[1])}

\* C2: the document file a save has written holds a document that satisfies
\* every invariant, and a save of an Identity that violates one fails and
\* leaves the file as it was.
C2_SavedDocumentIsValid ==
    last.cmd = "save" =>
        /\ last.result = "ok" => LoadOk(fs_idp) /\ Valid(load_from_file(fs_idp))
        /\ ~Valid(doc[1]) => last.result # "ok" /\ fs_idp = pre.idp

\* C3: load never returns Ok with a document one of whose reputation entries
\* has a value that differs from the sum of its history's changes.
C3_LoadRejectsBadReputation ==
    /\ (last.cmd = "load" /\ last.result = "ok") => ReputationOk(doc[1])
    /\ (last.cmd = "show" /\ last.result = "ok") => ReputationOk(load_from_file(fs_idp))

\* C4: set with the path identity.id or identity.created_at reports the
\* failure ImmutableField, never success, and leaves the Identity in memory
\* and the document file as they were.
C4_SetImmutableFails ==
    (last.cmd = "set" /\ last.a1 \in {PathId, PathCreatedAt}) =>
        /\ last.result = "ImmutableField"
        /\ fs_idp = pre.idp
        /\ doc = pre.doc

\* C5: after a successful set of core.bio to v on the document init wrote,
\* the document file holds core.bio = v and an updated_at later than before,
\* not earlier than created_at, and every other field as before.
C5_SetBioIsPersisted ==
    (last.cmd = "set" /\ last.a1 = PathBio /\ last.result = "ok"
        /\ idp_new /\ fs_key.exists /\ LoadOk(pre.idp)) =>
        /\ LoadOk(fs_idp)
        /\ LET old == load_from_file(pre.idp)
               new == load_from_file(fs_idp)
           IN  /\ new.core.bio = last.a2
               /\ ~TextLeq(new.identity.updated_at, old.identity.updated_at)
               /\ TimesOk(new)
               /\ [new EXCEPT !.core.bio = old.core.bio,
                              !.identity.updated_at = old.identity.updated_at] = old

\* C6: a successful Identity::new(name, bio) returns an Identity whose id
\* starts with idp:key:sha256:, with exactly one public key, of algorithm
\* Ed25519, status active and a non-empty value, with core.name = name and
\* core.bio = bio, created_at = updated_at, and the five trust sequences empty.
C6_NewIdentityShape ==
    (last.cmd = "new" /\ last.result = "ok") =>
        /\ doc # <<>>
        /\ StartsWith(doc[1].identity.id, IdPrefix)
        /\ Len(doc[1].system.public_keys) = 1
        /\ doc[1].system.public_keys[1].algorithm = Ed25519
        /\ doc[1].system.public_keys[1].status = Active
        /\ doc[1].system.public_keys[1].value # <<>>
        /\ doc[1].core.name = last.a1
        /\ doc[1].core.bio = last.a2
        /\ doc[1].identity.created_at = doc[1].identity.updated_at
        /\ \A k \in TrustKeys : TrustOf(doc[1], k) = <<>>

\* C6 witness: new has returned, for a name and a bio that differ from each
\* other and from the ones of other calls.
C6_Witness ==
    /\ last.cmd = "new" /\ last.result = "ok"
    /\ last.a1 = Bob /\ last.a2 = NewBio
    /\ doc # <<>> /\ doc[1].core.name = Bob

\* C7: once a save of an Identity that satisfies every invariant has
\* returned Ok, loading the file succeeds and returns that Identity, equal
\* in every field.
C7_RoundTrip ==
    (last.cmd = "save" /\ last.result = "ok" /\ Valid(doc[1])) =>
        /\ LoadOk(fs_idp)
        /\ load_from_file(fs_idp) = doc[1]

\* C7 witness: the save of an Identity with all five trust sequences
\* non-empty, a credential with an expiry and one without, has returned Ok.
C7_Witness ==
    /\ last.cmd = "save" /\ last.result = "ok"
    /\ doc # <<>> /\ Valid(doc[1])
    /\ \A k \in TrustKeys : TrustOf(doc[1], k) # <<>>
    /\ \E i \in DOMAIN doc[1].credentials : doc[1].credentials[i].expires_at = <<>>
    /\ \E i \in DOMAIN doc[1].credentials : doc[1].credentials[i].expires_at # <<>>

\* The text has the three blocks, and each trust sequence at most once and
\* of the right shape.
BlocksPresent(es) ==
    /\ Once(es, "identity") /\ IsIdentityBlock(Val(es, "identity"))
    /\ Once(es, "system") /\ IsSystemBlock(Val(es, "system"))
    /\ Once(es, "core") /\ IsCoreBlock(Val(es, "core"))
    /\ (Count(es, "credentials") = 0
        \/ (Once(es, "credentials") /\ IsCredentials(Val(es, "credentials"))))
    /\ (Count(es, "proofs") = 0
        \/ (Once(es, "proofs") /\ IsProofs(Val(es, "proofs"))))
    /\ (Count(es, "contracts") = 0
        \/ (Once(es, "contracts") /\ IsContracts(Val(es, "contracts"))))
    /\ (Count(es, "reputation") = 0
        \/ (Once(es, "reputation") /\ IsReputations(Val(es, "reputation"))))
    /\ (Count(es, "consent") = 0
        \/ (Once(es, "consent") /\ IsConsents(Val(es, "consent"))))

\* C8: a load of a text with the identity, system and core blocks, whatever
\* trust sequences it omits, succeeds, returns id, name and bio as the text
\* writes them and every omitted sequence empty; and a text a save has
\* written omits exactly the sequences that are empty.
C8_OmittedSequences ==
    /\ (last.cmd = "load" /\ fs_idp.exists /\ BlocksPresent(fs_idp.data)) =>
        /\ last.result = "ok"
        /\ doc[1].identity.id = Val(Val(fs_idp.data, "identity").entries, "id").text
        /\ doc[1].core.name = Val(Val(fs_idp.data, "core").entries, "name").text
        /\ doc[1].core.bio = Val(Val(fs_idp.data, "core").entries, "bio").text
        /\ \A k \in TrustKeys : Count(fs_idp.data, k) = 0 => TrustOf(doc[1], k) = <<>>
        /\ \A k \in TrustKeys : Count(fs_idp.data, k) = 1 => TrustOf(doc[1], k) # <<>>
                                    \/ Val(fs_idp.data, k).items = <<>>
    /\ (last.cmd = "save" /\ last.result = "ok") =>
        \A k \in TrustKeys : Count(fs_idp.data, k) = 0 <=> TrustOf(doc[1], k) = <<>>

\* C8 witness: a load has returned a document from a text that omits some
\* trust sequences and has others.
C8_Witness ==
    /\ last.cmd = "load" /\ last.result = "ok"
    /\ Count(fs_idp.data, "credentials") = 0 /\ Count(fs_idp.data, "consent") = 0
    /\ Count(fs_idp.data, "reputation") = 1
    /\ doc[1].credentials = <<>> /\ doc[1].reputation # <<>>

\* The id is the prefix and the Base64 text of the SHA-256 digest of the
\* first public key's Base64 text.
DerivedId(d) ==
    /\ d.system.public_keys # <<>>
    /\ d.identity.id = IdPrefix \o Base64Encode(Sha256(d.system.public_keys[1].value))

\* C9: every Identity that descends from one Identity::new built, in memory
\* or in a document file that loads, through any saves, loads and sets, has
\* the id derived from the encoded text of its first public key.
C9_IdIsDerived ==
    /\ (doc_new /\ doc # <<>>) => DerivedId(doc[1])
    /\ (idp_new /\ LoadOk(fs_idp)) => DerivedId(load_from_file(fs_idp))

\* C9 witness: init has written both files, the document was loaded, and a
\* set was run on it.
C9_Witness ==
    /\ last.cmd = "set" /\ idp_new /\ doc_new
    /\ fs_key.exists /\ fs_key.data # <<>> /\ LoadOk(fs_idp)
    /\ doc = <<load_from_file(fs_idp)>>
    /\ doc[1].core.name = Bob

\* C10: after an init both files exist and belong to the same key pair if it
\* reported success, and neither file was created or modified by it if it
\* reported failure.
C10_InitAllOrNothing ==
    (last.cmd = "init" /\ last.result \in {"ok", "err"}) =>
        \/ /\ last.result = "ok"
           /\ LoadOk(fs_idp) /\ fs_key.exists
           /\ load_from_file(fs_idp).system.public_keys[1].value
                 = Base64Encode(PublicKeyOfPkcs8(fs_key.data))
        \/ /\ last.result = "err"
           /\ fs_idp = pre.idp /\ fs_key = pre.key
====
